---- MODULE Spec2Model ----
(***************************************************************************)
(* A model of merkle_tree.py: bottom-up construction of a Merkle tree,     *)
(* derivation of an audit trail for a leaf hash, and verification of a     *)
(* proof against a trusted root hash.                                      *)
(*                                                                         *)
(* Strings are sequences of symbols, `+` on strings is \o.  A hex digest   *)
(* is the string wrapped in brackets: distinct strings have distinct       *)
(* digests, and the concatenation of two digests parses in one way only,   *)
(* so compute_hash is collision free without being the identity.           *)
(* Node objects live in a heap, a sequence of records; a reference is an   *)
(* index into it, and None is the reference 0.                             *)
(***************************************************************************)
EXTENDS Integers, Sequences, FiniteSets, TLC

VARIABLES
    pc,            \* where the module-level script is: "start", "built", "crashed"
    error,         \* the exception that ended the script, "" when none
    data_chunks,   \* the argument of build_tree
    nodes,         \* the heap of Node objects
    merkle_tree,   \* the MerkleTree object: root_node and leaves
    levels,        \* the argument of each build_parents invocation, in call order
    default_trail, \* the list object bound to generate_audit_trail's default `trail`
    query,         \* the last get_audit_trail call: argument, `trail` at entry, result
    calls,         \* number of get_audit_trail calls made
    proof,         \* the last merkle_proof call: arguments and outcome
    thr            \* the concurrent callers of get_audit_trail (SpecConc only)

vars == <<pc, error, data_chunks, nodes, merkle_tree, levels, default_trail,
          query, calls, proof, thr>>

\* Most chunks given to build_tree.
MaxChunks == 5
\* Most get_audit_trail calls made by the sequential script.
MaxCalls == 2
\* The interpreter's recursion limit, in build_parents frames.
MaxRecursion == 6
\* Concurrent callers of get_audit_trail.
NumCallers == 2

None == 0

left == "left"
right == "right"

----------------------------------------------------------------------------
(* Chunks and the hash primitive *)

\* The k-th word of the input text, as a string.
Chunk(k) == <<ToString(k)>>

compute_hash(data) == <<"[">> \o data \o <<"]">>

\* chunk_data(data): the words of the text.  Words are opaque to the program (it
\* only hashes them), so texts are enumerated up to renaming of their words: the
\* first occurrences of the words appear in increasing order.
IsCanonical(w) ==
    \A i \in DOMAIN w :
        \/ \E j \in 1..(i - 1) : w[j] = w[i]
        \/ w[i] = 1 + Cardinality({w[j] : j \in 1..(i - 1)})

chunk_data ==
    UNION { { [i \in 1..n |-> Chunk(w[i])] : w \in { v \in [1..n -> 1..n] : IsCanonical(v) } }
            : n \in 0..MaxChunks }

\* A word that is in no input text.
AbsentChunk == Chunk(MaxChunks + 1)

----------------------------------------------------------------------------
(* Node and tree construction *)

Node(hash_value, data_value) ==
    [hash_value |-> hash_value, data_value |-> data_value,
     parent |-> None, left_child |-> None, right_child |-> None]

RECURSIVE build_leaves_loop(_, _, _)
build_leaves_loop(chunks, k, heap) ==
    IF k > Len(chunks) THEN heap
    ELSE build_leaves_loop(chunks, k + 1,
                           Append(heap, Node(compute_hash(chunks[k]), chunks[k])))

\* The heap after build_leaves; the list it returns is <<1, ..., Len(chunks)>>.
build_leaves(chunks) == build_leaves_loop(chunks, 1, <<>>)

\* A lone last node is paired with the first node of the level.
right_child_wraps(level, i) ==
    IF i + 1 < Len(level) THEN level[i + 2] ELSE level[1]

\* The right child of the pair that starts at 0-based index i.
right_child_of(level, i) ==
    IF i + 1 < Len(level) THEN level[i + 2] ELSE level[i + 1]

\* A lone last node is promoted to the next level unchanged.
RECURSIVE pair_loop_promote(_, _, _, _)
pair_loop_promote(level, i, heap, parents) ==
    IF ~(i < Len(level)) THEN [heap |-> heap, parents |-> parents]
    ELSE IF ~(i + 1 < Len(level))
         THEN [heap |-> heap, parents |-> Append(parents, level[i + 1])]
    ELSE LET left_child == level[i + 1]
             right_child == level[i + 2]
             parent == Len(heap) + 1
             made == [Node(compute_hash(heap[left_child].hash_value
                                        \o heap[right_child].hash_value), None)
                      EXCEPT !.left_child = left_child, !.right_child = right_child]
             heap1 == Append(heap, made)
             heap2 == [heap1 EXCEPT ![left_child].parent = parent]
             heap3 == [heap2 EXCEPT ![right_child].parent = parent]
         IN pair_loop_promote(level, i + 2, heap3, Append(parents, parent))

\* The while loop of build_parents, i being its 0-based index.
RECURSIVE pair_loop(_, _, _, _)
pair_loop(level, i, heap, parents) ==
    IF ~(i < Len(level)) THEN [heap |-> heap, parents |-> parents]
    ELSE LET left_child == level[i + 1]
             right_child == right_child_of(level, i)
             parent == Len(heap) + 1
             made == [Node(compute_hash(heap[left_child].hash_value
                                        \o heap[right_child].hash_value), None)
                      EXCEPT !.left_child = left_child, !.right_child = right_child]
             heap1 == Append(heap, made)
             heap2 == [heap1 EXCEPT ![left_child].parent = parent]
             heap3 == [heap2 EXCEPT ![right_child].parent = parent]
         IN pair_loop(level, i + 2, heap3, Append(parents, parent))

\* build_parents(leaves); depth counts the frames on the stack, lvls the
\* arguments of the invocations so far.  An empty level is never of length 1
\* and yields an empty list of parents, so the recursion only ends at the
\* interpreter's limit.
RECURSIVE build_parents(_, _, _, _)
build_parents(level, heap, lvls, depth) ==
    IF depth > MaxRecursion
    THEN [error |-> "RecursionError", root_node |-> None, heap |-> heap, levels |-> lvls]
    ELSE IF Len(level) = 1
    THEN [error |-> "", root_node |-> level[1], heap |-> heap,
          levels |-> Append(lvls, level)]
    ELSE LET r == pair_loop(level, 0, heap, <<>>)
         IN build_parents(r.parents, r.heap, Append(lvls, level), depth + 1)

build_tree(chunks) ==
    LET heap == build_leaves(chunks)
        leaves == [i \in 1..Len(chunks) |-> i]
        r == build_parents(leaves, heap, <<>>, 1)
    IN [error |-> r.error, nodes |-> r.heap, levels |-> r.levels,
        tree |-> [root_node |-> r.root_node, leaves |-> leaves]]

----------------------------------------------------------------------------
(* Audit trail derivation *)

NoSide == "None"

\* The lookup compares against every node of the tree, not the leaves only.
find_leaf_any_node(heap, tree, target_leaf_hash) ==
    LET hits == { i \in 1..Len(heap) : heap[i].hash_value = target_leaf_hash }
    IN IF hits = {} THEN None
       ELSE CHOOSE i \in hits : \A j \in hits : i <= j

\* The first leaf, in list order, whose hash is target_leaf_hash; None when there is none.
find_leaf(heap, tree, target_leaf_hash) ==
    LET hits == { i \in 1..Len(tree.leaves) :
                    heap[tree.leaves[i]].hash_value = target_leaf_hash }
    IN IF hits = {} THEN None
       ELSE tree.leaves[CHOOSE i \in hits : \A j \in hits : i <= j]

\* The right-child test comes first.
sibling_pair_right_first(heap, node) ==
    LET parent == heap[heap[node].parent]
    IN IF parent.right_child = node
       THEN <<heap[parent.left_child].hash_value, left>>
       ELSE <<heap[parent.right_child].hash_value, right>>

\* The pair appended for a node below the root.
sibling_pair(heap, node) ==
    LET parent == heap[heap[node].parent]
    IN IF parent.left_child = node
       THEN <<heap[parent.right_child].hash_value, right>>
       ELSE <<heap[parent.left_child].hash_value, left>>

\* One invocation of generate_audit_trail up to its return or its recursive call:
\* the list after the append, and the node the recursion continues with.
trail_frame(heap, tree, node, trail) ==
    IF tree.root_node = node
    THEN [done |-> TRUE, node |-> node,
          trail |-> Append(trail, <<heap[tree.root_node].hash_value, NoSide>>)]
    ELSE [done |-> FALSE, node |-> heap[node].parent,
          trail |-> Append(trail, sibling_pair(heap, node))]

RECURSIVE generate_audit_trail(_, _, _, _)
generate_audit_trail(heap, tree, node, trail) ==
    LET f == trail_frame(heap, tree, node, trail)
    IN IF f.done THEN f.trail
       ELSE generate_audit_trail(heap, tree, f.node, f.trail)

\* get_audit_trail passes no `trail`, so generate_audit_trail appends to the
\* list object its default is bound to; `trail` is that list at entry.
get_audit_trail(heap, tree, target_leaf_hash, trail) ==
    LET leaf == find_leaf(heap, tree, target_leaf_hash)
    IN IF leaf = None THEN [returned |-> "None", trail |-> <<>>]
       ELSE [returned |-> "list", trail |-> generate_audit_trail(heap, tree, leaf, trail)]

----------------------------------------------------------------------------
(* Proof verification *)

\* trail[:-1]
all_but_last(trail) ==
    IF trail = <<>> THEN <<>> ELSE SubSeq(trail, 1, Len(trail) - 1)

RECURSIVE proof_loop(_, _, _)
proof_loop(items, k, current_hash) ==
    IF k > Len(items) THEN current_hash
    ELSE proof_loop(items, k + 1,
                    IF items[k][2] = left
                    THEN compute_hash(items[k][1] \o current_hash)
                    ELSE compute_hash(current_hash \o items[k][1]))

\* The loop runs over the whole trail, the terminal pair included.
merkle_proof_whole_trail(root_hash, leaf_hash, trail) ==
    proof_loop(trail, 1, leaf_hash) = root_hash

\* The trail's own terminal pair is compared with the root; nothing is recomputed.
merkle_proof_trusts_trail(root_hash, leaf_hash, trail) ==
    trail # <<>> /\ trail[Len(trail)][1] = root_hash

merkle_proof(root_hash, leaf_hash, trail) ==
    proof_loop(all_but_last(trail), 1, leaf_hash) = root_hash

----------------------------------------------------------------------------
(* State *)

NoTree == [root_node |-> None, leaves |-> <<>>]
NoQuery == [called |-> FALSE, target |-> <<>>, trail_in |-> <<>>,
            returned |-> "None", trail |-> <<>>]
NoProof == [outcome |-> "", root_hash |-> <<>>, leaf_hash |-> <<>>,
            trail |-> <<>>, result |-> FALSE]
Idle == [pc |-> "idle", target |-> <<>>, node |-> None, returned |-> "None", trail |-> <<>>]

----------------------------------------------------------------------------
(* The script: build the tree once *)

Init ==
    /\ pc = "start"
    /\ error = ""
    /\ data_chunks = <<>>
    /\ nodes = <<>>
    /\ merkle_tree = NoTree
    /\ levels = <<>>
    /\ default_trail = <<>>
    /\ query = NoQuery
    /\ calls = 0
    /\ proof = NoProof
    /\ thr = [t \in 1..NumCallers |-> Idle]

\* merkle_tree = MerkleTree.build_tree(chunk_data(data))
BuildTree ==
    /\ pc = "start"
    /\ \E chunks \in chunk_data :
         LET b == build_tree(chunks) IN
         /\ data_chunks' = chunks
         /\ levels' = b.levels
         /\ IF b.error = ""
            THEN /\ pc' = "built"
                 /\ nodes' = b.nodes
                 /\ merkle_tree' = b.tree
                 /\ error' = ""
            ELSE /\ pc' = "crashed"
                 /\ nodes' = b.nodes
                 /\ merkle_tree' = NoTree
                 /\ error' = b.error
    /\ UNCHANGED <<default_trail, query, calls, proof, thr>>

\* The hashes a caller may present: those of the leaves and of the root, and
\* that of a word that is not in the text.
Hashes ==
    { nodes[merkle_tree.leaves[i]].hash_value : i \in 1..Len(merkle_tree.leaves) }
      \cup { nodes[merkle_tree.root_node].hash_value, compute_hash(AbsentChunk) }

\* audit_trail = merkle_tree.get_audit_trail(h)
GetAuditTrail ==
    /\ pc = "built"
    /\ calls < MaxCalls
    /\ \E h \in Hashes :
         LET r == get_audit_trail(nodes, merkle_tree, h, default_trail) IN
         /\ query' = [called |-> TRUE, target |-> h, trail_in |-> default_trail,
                      returned |-> r.returned, trail |-> r.trail]
         /\ default_trail' = IF r.returned = "list" THEN r.trail ELSE default_trail
    /\ calls' = calls + 1
    /\ proof' = NoProof
    /\ UNCHANGED <<pc, error, data_chunks, nodes, merkle_tree, levels, thr>>

\* The trails a caller may present: the one returned, the one returned less its
\* terminal pair, and the one returned with an unknown side marker in its first pair.
TrailInputs(trail) ==
    { trail, all_but_last(trail) }
      \cup (IF Len(trail) >= 2 THEN { [trail EXCEPT ![1][2] = "up"] } ELSE {})

\* merkle_proof(trusted_root_hash, leaf_hash, audit_trail); slicing None raises
\* TypeError.  merkle_proof changes nothing the program keeps, so a second call
\* in a row is the same step taken from the state before the first: `proof`
\* holds the one call made since the last query.
MerkleProof ==
    /\ pc = "built"
    /\ query.called
    /\ proof = NoProof
    /\ IF query.returned = "None"
       THEN /\ proof' = [NoProof EXCEPT !.outcome = "TypeError"]
            /\ pc' = "crashed"
            /\ error' = "TypeError"
       ELSE /\ \E leaf_hash \in Hashes, trail \in TrailInputs(query.trail) :
                 LET root_hash == nodes[merkle_tree.root_node].hash_value IN
                 proof' = [outcome |-> "returned", root_hash |-> root_hash,
                           leaf_hash |-> leaf_hash, trail |-> trail,
                           result |-> merkle_proof(root_hash, leaf_hash, trail)]
            /\ UNCHANGED <<pc, error>>
    /\ UNCHANGED <<data_chunks, nodes, merkle_tree, levels, default_trail, query,
                   calls, thr>>

Next == BuildTree \/ GetAuditTrail \/ MerkleProof

Spec == Init /\ [][Next]_vars

----------------------------------------------------------------------------
(* Concurrent callers of get_audit_trail on a tree that is already built.  *)
(* A step is one invocation of generate_audit_trail; callers interleave    *)
(* between invocations.                                                     *)

InitConc ==
    /\ \E chunks \in { c \in chunk_data : c # <<>> } :
         /\ data_chunks = chunks
         /\ nodes = build_tree(chunks).nodes
         /\ merkle_tree = build_tree(chunks).tree
         /\ levels = build_tree(chunks).levels
    /\ pc = "built"
    /\ error = ""
    /\ default_trail = <<>>
    /\ query = NoQuery
    /\ calls = 0
    /\ proof = NoProof
    /\ thr = [t \in 1..NumCallers |-> Idle]

\* get_audit_trail up to its return of None or its call of generate_audit_trail.
CallerEnters(t) ==
    /\ thr[t].pc = "idle"
    /\ \E h \in Hashes :
         LET leaf == find_leaf(nodes, merkle_tree, h) IN
         thr' = [thr EXCEPT ![t] =
                   IF leaf = None
                   THEN [Idle EXCEPT !.pc = "done", !.target = h]
                   ELSE [Idle EXCEPT !.pc = "walk", !.target = h, !.node = leaf]]
    /\ UNCHANGED <<pc, error, data_chunks, nodes, merkle_tree, levels,
                   default_trail, query, calls, proof>>

\* One invocation of generate_audit_trail on the shared default list.
CallerWalks(t) ==
    /\ thr[t].pc = "walk"
    /\ LET f == trail_frame(nodes, merkle_tree, thr[t].node, default_trail) IN
       /\ default_trail' = f.trail
       /\ thr' = [thr EXCEPT ![t] =
                    IF f.done
                    THEN [@ EXCEPT !.pc = "done", !.returned = "list", !.trail = f.trail]
                    ELSE [@ EXCEPT !.node = f.node]]
    /\ UNCHANGED <<pc, error, data_chunks, nodes, merkle_tree, levels, query,
                   calls, proof>>

NextConc == \E t \in 1..NumCallers : CallerEnters(t) \/ CallerWalks(t)

SpecConc == InitConc /\ [][NextConc]_vars

----------------------------------------------------------------------------
(* Properties *)

RootHash == nodes[merkle_tree.root_node].hash_value

LeafHashes ==
    { nodes[merkle_tree.leaves[i]].hash_value : i \in 1..Len(merkle_tree.leaves) }

\* The proof call made on the trail exactly as the last query returned it.
ProofOnReturnedTrail ==
    /\ proof.outcome = "returned"
    /\ query.returned = "list"
    /\ proof.trail = query.trail
    /\ proof.root_hash = RootHash

\* C1 (round trip): the trail the first audit-trail query returns for the hash of
\* a chunk of the text, given to merkle_proof with that hash and the root hash
\* of the tree, verifies.
RoundTrip ==
    (ProofOnReturnedTrail /\ calls = 1 /\ proof.leaf_hash = query.target)
        => proof.result = TRUE

\* C1 witness: three chunks, the trail of the last one (paired with itself) verified.
RoundTripReached ==
    /\ ProofOnReturnedTrail
    /\ calls = 1
    /\ Len(data_chunks) = 3
    /\ query.target = compute_hash(data_chunks[3])
    /\ proof.leaf_hash = query.target
    /\ proof.result = TRUE

\* C2 (fresh trail per call), as claimed: every call that finds its leaf returns
\* the pairs on the path from that leaf to the root and one terminal pair, and
\* nothing appended by an earlier call.
FreshTrailPerCall ==
    (query.called /\ query.returned = "list")
        => query.trail = generate_audit_trail(nodes, merkle_tree,
                             find_leaf(nodes, merkle_tree, query.target), <<>>)

\* C3 (tamper detection): a returned trail given to merkle_proof with a leaf hash
\* other than the one it was derived for does not verify against the root hash.
TamperDetection ==
    (ProofOnReturnedTrail /\ proof.leaf_hash # query.target)
        => proof.result = FALSE

\* C3 witness: the trail of one leaf of a tree of several, presented with the
\* hash of another of its leaves, is rejected.
TamperDetectionReached ==
    /\ ProofOnReturnedTrail
    /\ Len(data_chunks) >= 2
    /\ proof.leaf_hash # query.target
    /\ proof.leaf_hash \in LeafHashes
    /\ proof.result = FALSE

\* C4 (empty input), as claimed: build_tree on no chunks ends with an
\* EmptyInputError, returns no tree and does not reduce the empty level again.
EmptyInputReported ==
    (pc # "start" /\ data_chunks = <<>>)
        => /\ pc = "crashed"
           /\ error = "EmptyInputError"
           /\ merkle_tree = NoTree
           /\ Len(levels) <= 1

\* C5 (leaf not found): a query for a hash that no leaf carries returns None and
\* leaves the trail list as it was at entry.
LeafNotFound ==
    (query.called /\ query.target \notin LeafHashes)
        => /\ query.returned = "None"
           /\ query.trail = <<>>
           /\ default_trail = query.trail_in

\* C5 witness: the root hash of a tree of several leaves is asked for after an
\* earlier query has filled the list.
LeafNotFoundReached ==
    /\ query.called
    /\ Len(data_chunks) >= 2
    /\ query.target = RootHash
    /\ query.trail_in # <<>>
    /\ query.returned = "None"

abc == <<Chunk(1), Chunk(2), Chunk(3)>>
h_a == compute_hash(Chunk(1))
h_b == compute_hash(Chunk(2))
h_c == compute_hash(Chunk(3))
p1 == compute_hash(h_a \o h_b)
p2 == compute_hash(h_c \o h_c)
abc_root == compute_hash(p1 \o p2)

\* C6 as claimed: on the tree of [a, b, c] the trail derived for hash(c), by a
\* query that starts from an empty list, is [(h(c), LEFT), (p1, LEFT), (root, NONE)].
SelfPairedTrailLeft ==
    (data_chunks = abc /\ query.called /\ query.target = h_c /\ query.trail_in = <<>>)
        => query.trail = << <<h_c, left>>, <<p1, left>>, <<abc_root, NoSide>> >>

\* C6 as amended: on the tree of [a, b, c] a query for hash(c) appends exactly
\* [(h(c), RIGHT), (p1, LEFT), (root, NONE)]: the node paired with itself is its
\* parent's left child, so its own hash is recorded with side RIGHT.
SelfPairedTrailRight ==
    (data_chunks = abc /\ query.called /\ query.target = h_c)
        => /\ query.returned = "list"
           /\ query.trail = query.trail_in
                  \o << <<h_c, right>>, <<p1, left>>, <<abc_root, NoSide>> >>

\* C6 witness: the first query on the tree of [a, b, c] asks for hash(c).
SelfPairedTrailReached ==
    /\ data_chunks = abc
    /\ query.called
    /\ query.target = h_c
    /\ query.trail_in = <<>>
    /\ Len(query.trail) = 3
    /\ query.trail[1] = <<h_c, right>>

Elements(seq) == { seq[i] : i \in 1..Len(seq) }

\* C7 (odd-count duplication): at every level of an odd number of nodes above
\* one, the last node gets a parent with that node as both children and the
\* hash of its hash twice; every other parent pairs two adjacent distinct nodes
\* in order; every node of the next level is a new parent.
OddCountDuplication ==
    \A j \in 1..(Len(levels) - 1) :
        LET level == levels[j]
            parents == levels[j + 1]
            n == Len(level)
        IN (n > 1 /\ n % 2 = 1) =>
             /\ Len(parents) = (n + 1) \div 2
             /\ Elements(parents) \cap Elements(level) = {}
             /\ \A k \in 1..Len(parents) :
                  LET l == level[2 * k - 1]
                      r == IF 2 * k <= n THEN level[2 * k] ELSE level[n]
                      parent == nodes[parents[k]]
                  IN /\ parent.left_child = l
                     /\ parent.right_child = r
                     /\ parent.hash_value
                          = compute_hash(nodes[l].hash_value \o nodes[r].hash_value)
                     /\ nodes[l].parent = parents[k]
                     /\ nodes[r].parent = parents[k]
                     /\ (2 * k <= n) => l # r

\* C7 witness: five chunks give two odd levels, of five and of three nodes.
OddCountDuplicationReached ==
    /\ pc = "built"
    /\ Len(levels) = 4
    /\ Len(levels[1]) = 5
    /\ Len(levels[2]) = 3
    /\ nodes[levels[2][3]].left_child = levels[1][5]
    /\ nodes[levels[2][3]].right_child = levels[1][5]
    /\ nodes[levels[3][2]].left_child = levels[2][3]
    /\ nodes[levels[3][2]].right_child = levels[2][3]

\* C8 (malformed trail), as claimed: merkle_proof given a trail without its
\* terminal pair, or with a side marker that is neither left nor right before
\* the last pair, reports MalformedTrailError and returns no boolean.
Malformed(trail) ==
    \/ trail = <<>>
    \/ trail[Len(trail)][2] # NoSide
    \/ \E k \in 1..(Len(trail) - 1) : trail[k][2] \notin {left, right}

MalformedTrailReported ==
    (proof.outcome \notin {"", "TypeError"} /\ Malformed(proof.trail))
        => proof.outcome = "MalformedTrailError"

\* C9 (concurrent queries), as claimed: the trail each concurrent caller gets is
\* the trail its query yields when it runs alone.
ConcurrentTrailsIsolated ==
    \A t \in 1..NumCallers :
        (thr[t].pc = "done" /\ thr[t].returned = "list")
            => thr[t].trail = generate_audit_trail(nodes, merkle_tree,
                                  find_leaf(nodes, merkle_tree, thr[t].target), <<>>)

\* The number of parent links from node up to root; -1 when the chain ends elsewhere.
RECURSIVE StepsToRoot(_, _, _)
StepsToRoot(node, root, k) ==
    IF node = root THEN k
    ELSE IF nodes[node].parent = None \/ k > Len(nodes) THEN -1
    ELSE StepsToRoot(nodes[node].parent, root, k + 1)

CeilLog2(n) == CHOOSE k \in 0..n : 2 ^ k >= n /\ \A j \in 0..(k - 1) : 2 ^ j < n

\* C10 (height): in a built tree of n leaves every leaf reaches the root in
\* exactly ceil(log2(n)) parent steps; a single leaf is the root and has no parent.
HeightInvariant ==
    pc = "built" =>
        /\ \A i \in 1..Len(merkle_tree.leaves) :
             StepsToRoot(merkle_tree.leaves[i], merkle_tree.root_node, 0)
                 = CeilLog2(Len(data_chunks))
        /\ Len(data_chunks) = 1 =>
             /\ merkle_tree.root_node = merkle_tree.leaves[1]
             /\ nodes[merkle_tree.root_node].parent = None

\* C10 witness: five leaves, the last of them three steps below the root.
HeightInvariantReached ==
    /\ pc = "built"
    /\ Len(data_chunks) = 5
    /\ StepsToRoot(merkle_tree.leaves[5], merkle_tree.root_node, 0) = 3

====
